---- MODULE Spec2Model ----
(***************************************************************************)
(* Model of src/src/contracts/PowGiverContract.ts: the byte-level helpers  *)
(* (padded, parseHex), the state-cell extractor, the mining-job builders,  *)
(* the hash check and the mining message.                                  *)
(*                                                                         *)
(* A Buffer is a sequence of bytes (0..255), 1-indexed here and 0-indexed  *)
(* in the source.  A JavaScript string is a sequence of one-character      *)
(* strings.  The state records the last call made on the contract class:   *)
(* which operation (op), its arguments (args) and what it returned or      *)
(* threw (ret).                                                            *)
(***************************************************************************)
EXTENDS Integers, Sequences, FiniteSets, TLC

VARIABLES address, op, args, ret

vars == <<address, op, args, ret>>

(***************************************************************************)
(* Bounds of the model.                                                    *)
(***************************************************************************)
MaxDataLen == 3      \* longest buffer handed to padded directly
MaxPadSize == 4      \* largest size handed to padded directly
MaxHexLen == 4       \* longest string handed to parseHex directly
MaxShortLen == 1     \* longest "short" seed / random buffer
MaxTailBits == 2     \* most bits that follow the 704 parsed bits of a cell

(***************************************************************************)
(* Program constants.                                                      *)
(***************************************************************************)
SeedSize == 16
ComplexitySize == 32
HashSize == 32
SkipBits == 32 + 32 + 256

(***************************************************************************)
(* Generic helpers.                                                        *)
(***************************************************************************)
\* A function on 1..n as a sequence.
AsSeq(f) == SubSeq(f, 1, Len(f))

Fill(n, b) == AsSeq([i \in 1..n |-> b])

Ramp(n, start) == AsSeq([i \in 1..n |-> (start + i) % 256])

Cycle(pattern, n) == AsSeq([i \in 1..n |-> pattern[((i - 1) % Len(pattern)) + 1]])

RECURSIVE SeqsUpTo(_, _)
SeqsUpTo(S, n) ==
    IF n = 0 THEN {<<>>}
    ELSE LET shorter == SeqsUpTo(S, n - 1)
         IN  shorter \cup {Append(s, x) : s \in shorter, x \in S}

\* Returned by an operation that completes / that throws.
Ok(v) == [threw |-> "none", value |-> v]

Threw(e) == [threw |-> e, value |-> <<>>]

(***************************************************************************)
(* padded (lines 6-12).  Buffer.alloc(size) is zero-filled, and the loop   *)
(* stores data[i] at index i + (size - data.length) for every i below      *)
(* data.length.  A Buffer is a Uint8Array: a store to an index outside     *)
(* 0..size-1 (a negative one, when data is longer than size) is ignored,   *)
(* it neither throws nor grows the array.  No two i store to the same      *)
(* index, so the byte at index j after the loop is data[i] for the one i   *)
(* with i + (size - data.length) = j, and the zero of Buffer.alloc when    *)
(* there is no such i.                                                     *)
(***************************************************************************)
BufferAlloc(size) == Fill(size, 0)

\* The i whose store lands on index j (0-based): i + (size - len) = j.
StoredFrom(data, size, j) == j - (size - Len(data))

paddedLoop(res, data, size) ==
    AsSeq([k \in 1..Len(res) |->
        LET i == StoredFrom(data, size, k - 1)
        IN  IF i >= 0 /\ i < Len(data) THEN data[i + 1] ELSE res[k]])

\* Mutant: the data is left-aligned (the offset size - data.length is lost).
paddedLeftAligned(data, size) ==
    AsSeq([j \in 1..size |-> IF j <= Len(data) THEN data[j] ELSE 0])

padded(data, size) == paddedLoop(BufferAlloc(size), data, size)

(***************************************************************************)
(* parseHex (lines 14-25).                                                 *)
(***************************************************************************)
HexLower == <<"0", "1", "2", "3", "4", "5", "6", "7", "8", "9", "a", "b", "c", "d", "e", "f">>

HexUpper == <<"0", "1", "2", "3", "4", "5", "6", "7", "8", "9", "A", "B", "C", "D", "E", "F">>

IsHexDigit(c) == \E i \in 1..16 : HexLower[i] = c \/ HexUpper[i] = c

HexVal(c) == (CHOOSE i \in 1..16 : HexLower[i] = c \/ HexUpper[i] = c) - 1

StartsWith(s, p) == Len(s) >= Len(p) /\ SubSeq(s, 1, Len(p)) = p

Slice(s, n) == SubSeq(s, n + 1, Len(s))

\* Buffer.from(src, 'hex'): decodes pairs of digits from the left and stops
\* at the first pair that is not two hex digits (or at a trailing single
\* character); what was decoded so far is the result.  It does not throw.
IsHexPair(src, k) == IsHexDigit(src[2 * k - 1]) /\ IsHexDigit(src[2 * k])

DecodedPairs(src) ==
    CHOOSE n \in 0..(Len(src) \div 2) :
        /\ \A k \in 1..n : IsHexPair(src, k)
        /\ n < Len(src) \div 2 => ~IsHexPair(src, n + 1)

BufferFromHex(src) ==
    AsSeq([k \in 1..DecodedPairs(src) |-> HexVal(src[2 * k - 1]) * 16 + HexVal(src[2 * k])])

StripX(src) == IF StartsWith(src, <<"x">>) THEN Slice(src, 1) ELSE src

Strip0x(src) == IF StartsWith(src, <<"0", "x">>) THEN Slice(src, 2) ELSE src

PadOdd(src) == IF Len(src) % 2 # 0 THEN <<"0">> \o src ELSE src

\* Mutant: the single-character marker 'x' is not stripped.
parseHexKeepX(src) == BufferFromHex(PadOdd(Strip0x(src)))

parseHex(src) == BufferFromHex(PadOdd(Strip0x(StripX(src))))

(***************************************************************************)
(* BitStringReader of the "ton" package, as used on lines 44-47: a cursor  *)
(* over a copy of the cell's bits.  readBit throws once the cursor is at   *)
(* the end; skip(n) is n readBits; readBuffer(n) is n readUIntNumber(8),   *)
(* most significant bit first.  A reader is [bits, offset, log, failed],   *)
(* log being every position the cursor has been left at.                   *)
(***************************************************************************)
OutOfRange == "Out of range"

NewReader(bits) == [bits |-> bits, offset |-> 0, log |-> <<0>>, failed |-> FALSE]

Advance(r, n) ==
    IF r.failed THEN r
    ELSE IF r.offset + n > Len(r.bits)
         THEN [r EXCEPT !.offset = Len(r.bits), !.log = Append(r.log, Len(r.bits)),
                        !.failed = TRUE]
         ELSE [r EXCEPT !.offset = r.offset + n, !.log = Append(r.log, r.offset + n)]

skip(r, n) == Advance(r, n)

RECURSIVE readUIntNumber(_, _, _, _)
readUIntNumber(bits, offset, n, acc) ==
    IF n = 0 THEN acc
    ELSE readUIntNumber(bits, offset + 1, n - 1, acc * 2 + bits[offset + 1])

\* The bytes readBuffer(size) returns when size * 8 bits are left.
readBuffer(r, size) ==
    AsSeq([k \in 1..size |-> readUIntNumber(r.bits, r.offset + 8 * (k - 1), 8, 0)])

(***************************************************************************)
(* extractPowParamsFromState (lines 39-52).  The result carries, beside    *)
(* the returned value, the cursor log and the cell's bits after the call.  *)
(***************************************************************************)
ExtractWith(cell, skipBits) ==
    LET r0 == NewReader(cell.bits)
        r1 == skip(r0, skipBits)
        r2 == Advance(r1, 8 * SeedSize)
        r3 == Advance(r2, 8 * ComplexitySize)
    IN  IF r3.failed
        THEN [threw |-> OutOfRange, value |-> <<>>, cursor |-> r3.log, bits |-> cell.bits]
        ELSE [threw |-> "none",
              value |-> [seed |-> readBuffer(r1, SeedSize),
                         complexity |-> readBuffer(r2, ComplexitySize)],
              cursor |-> r3.log,
              bits |-> cell.bits]

\* Mutant: one of the two 32-bit fields before the hash is not skipped.
extractSkipShort(cell) == ExtractWith(cell, 32 + 256)

extractPowParamsFromState(cell) == ExtractWith(cell, SkipBits)

(***************************************************************************)
(* The mining job (lines 60-103).                                          *)
(***************************************************************************)
WorkchainError == "Only walelts in basic workchain are supported"

RECURSIVE BufferConcat(_)
BufferConcat(list) ==
    IF list = <<>> THEN <<>> ELSE Head(list) \o BufferConcat(Tail(list))

\* Buffer.from('Mine'): the ASCII codes of M, i, n, e.
MineOp == <<77, 105, 110, 101>>

\* ./utils/createUInt32 is not among the sources: four bytes, big-endian.
createUInt32(value) ==
    <<(value \div 16777216) % 256, (value \div 65536) % 256, (value \div 256) % 256,
      value % 256>>

\* Mutant: the wallet hash comes before the expiry.
createMiningJobHeaderHashFirst(wallet, expiresSec) ==
    BufferConcat(<< <<0, 242>>, MineOp, <<0>>, wallet.hash, createUInt32(expiresSec) >>)

createMiningJobHeader(wallet, expiresSec) ==
    BufferConcat(<< <<0, 242>>, MineOp, <<0>>, createUInt32(expiresSec), wallet.hash >>)

\* Mutant: random is written where the seed belongs.
createMiningJobRandomForSeed(a) ==
    IF a.wallet.workChain # 0 THEN Threw(WorkchainError)
    ELSE Ok(BufferConcat(<<createMiningJobHeader(a.wallet, a.expiresSec), a.random, a.random,
                           a.random>>))

createMiningJob(a) ==
    IF a.wallet.workChain # 0 THEN Threw(WorkchainError)
    ELSE Ok(BufferConcat(<<createMiningJobHeader(a.wallet, a.expiresSec), a.random, a.seed,
                           a.random>>))

(***************************************************************************)
(* checkMiningJobHash (lines 114-118).  sha256 of "ton-crypto" is outside  *)
(* the repository; a 32-byte position-weighted checksum stands in for it.  *)
(***************************************************************************)
RECURSIVE WeightedSum(_, _, _)
WeightedSum(buf, lo, hi) ==
    IF lo > hi THEN 0
    ELSE IF lo = hi THEN buf[lo] * ((lo % 251) + 1)
         ELSE LET mid == (lo + hi) \div 2
              IN  (WeightedSum(buf, lo, mid) + WeightedSum(buf, mid + 1, hi)) % 65521

sha256(buf) ==
    LET sum == WeightedSum(buf, 1, Len(buf)) + Len(buf)
    IN  AsSeq([i \in 1..HashSize |-> (sum + (i * ((sum % 7) + 1))) % 256])

\* Buffer.equals: same length and the same bytes.
BufferEquals(a, b) == Len(a) = Len(b) /\ \A i \in 1..Len(a) : a[i] = b[i]

\* Mutant: the job is hashed without its two-byte prefix (the wire form).
checkMiningJobHashWire(a) ==
    LET job == createMiningJob([seed |-> a.seed, random |-> a.random, wallet |-> a.wallet,
                                expiresSec |-> a.expiresSec])
    IN  IF job.threw # "none" THEN job
        ELSE Ok(BufferEquals(a.hash, sha256(Slice(job.value, 2))))

checkMiningJobHash(a) ==
    LET job == createMiningJob([seed |-> a.seed, random |-> a.random, wallet |-> a.wallet,
                                expiresSec |-> a.expiresSec])
    IN  IF job.threw # "none" THEN job
        ELSE Ok(BufferEquals(a.hash, sha256(job.value)))

(***************************************************************************)
(* createMiningMessage (lines 129-166).  The external message is the pair  *)
(* of its destination and the bytes of its binary body.                    *)
(***************************************************************************)
\* Mutant: the commented-out prefix of line 145 is part of the body.
createMiningMessagePrefixed(a) ==
    IF a.wallet.workChain # 0 THEN Threw(WorkchainError)
    ELSE Ok([to |-> a.giver,
             body |-> BufferConcat(<< <<0, 242>>, MineOp, <<0>>, createUInt32(a.expiresSec),
                                      a.wallet.hash, a.random, a.seed, a.random >>)])

\* Mutant: the workchain of the wallet is not checked.
createMiningMessageUnchecked(a) ==
    Ok([to |-> a.giver,
        body |-> BufferConcat(<<MineOp, <<0>>, createUInt32(a.expiresSec), a.wallet.hash,
                                a.random, a.seed, a.random>>)])

createMiningMessage(a) ==
    IF a.wallet.workChain # 0 THEN Threw(WorkchainError)
    ELSE Ok([to |-> a.giver,
             body |-> BufferConcat(<<MineOp, <<0>>, createUInt32(a.expiresSec), a.wallet.hash,
                                     a.random, a.seed, a.random>>)])

(***************************************************************************)
(* getPowParams (lines 177-185).  params is what callGetMethod resolved    *)
(* to; stack[0][1] and stack[1][1] are stack[1][2] and stack[2][2] here.   *)
(***************************************************************************)
getPowParams(params) ==
    Ok([seed |-> padded(parseHex(params.stack[1][2]), SeedSize),
        complexity |-> padded(parseHex(params.stack[2][2]), ComplexitySize)])

(***************************************************************************)
(* The inputs the calls are made with.                                     *)
(***************************************************************************)
PadBytes == {0, 1, 255}

PadData == SeqsUpTo(PadBytes, MaxDataLen)

HexChars == {"0", "1", "a", "F", "x", "g"}

HexStrings == SeqsUpTo(HexChars, MaxHexLen)

\* Hex strings as a get method returns them: a prefix and n digits.
StackDigits == <<"1", "2", "3", "4", "5", "6", "7", "8", "9", "a", "b", "c", "d", "e", "F">>

StackPrefixes == {<<>>, <<"x">>, <<"0", "x">>}

StackStrings(counts) == {p \o Cycle(StackDigits, n) : p \in StackPrefixes, n \in counts}

SeedStrings == StackStrings({0, 1, 31, 32, 33, 34})

ComplexityStrings == StackStrings({2, 63, 64, 66})

FillBytes == {17, 34}

ShortBufs == SeqsUpTo(FillBytes, MaxShortLen)

Seeds == ShortBufs \cup {Fill(SeedSize, 34), Ramp(SeedSize, 0)}

Randoms == ShortBufs \cup {Fill(16, 17), Ramp(16, 100)}

\* Unix times that fit 32 bits unsigned (and TLC's integers).
Expiries == {0, 1, 1000000000, 2147483647}

Workchains == {-1, 0, 1}

Hashes == {Fill(HashSize, 0), Ramp(HashSize, 200)}

Wallets == [workChain : Workchains, hash : Hashes]

Givers == {[workChain |-> -1, hash |-> Fill(HashSize, 170)],
           [workChain |-> 0, hash |-> Ramp(HashSize, 7)]}

JobArgs == [seed : Seeds, random : Randoms, wallet : Wallets, expiresSec : Expiries]

\* The bytes a miner hashes for a, whatever the workchain of the wallet.
MinedBytes(a) ==
    BufferConcat(<<createMiningJobHeader(a.wallet, a.expiresSec), a.random, a.seed, a.random>>)

\* Candidate hashes: the digest of the job, the digest of the job without
\* its prefix, the digest with its last byte changed, a digest cut short,
\* and zeros.
CandidateHashes(a) ==
    LET h == sha256(MinedBytes(a))
    IN  {h, sha256(Slice(MinedBytes(a), 2)), [h EXCEPT ![HashSize] = (h[HashSize] + 1) % 256],
         SubSeq(h, 1, HashSize - 1), Fill(HashSize, 0)}

\* Cells: 320 leading bits, 128 bits of seed, 256 bits of complexity, a
\* tail; and such cells cut short.
LeadingBits == {Fill(SkipBits, 0), Cycle(<<1, 0, 1, 1>>, SkipBits)}

SeedBits == {Fill(8 * SeedSize, 0), Fill(8 * SeedSize, 1), Cycle(<<0, 1, 1, 0, 1>>, 8 * SeedSize)}

ComplexityBits ==
    {Fill(8 * ComplexitySize, 1), Cycle(<<1, 1, 0>>, 8 * ComplexitySize),
     Cycle(<<0, 0, 0, 1, 0, 1, 1>>, 8 * ComplexitySize)}

TailBits == SeqsUpTo({0, 1}, MaxTailBits)

FullCells == {l \o s \o c \o t : l \in LeadingBits, s \in SeedBits, c \in ComplexityBits,
                                 t \in TailBits}

CutCells == {SubSeq(f, 1, n) : f \in FullCells, n \in {0, 319, 320, 447, 448, 703}}

Cells == {[bits |-> b] : b \in FullCells \cup CutCells}

(***************************************************************************)
(* The state machine: the contract object is constructed for an address    *)
(* (lines 29-31, 172-175); then, one call at a time, any operation is      *)
(* called with any input and its result is taken by the caller.            *)
(***************************************************************************)
Init ==
    /\ address \in Givers
    /\ op = "idle"
    /\ args = <<>>
    /\ ret = Ok(<<>>)

\* The caller has taken the result of the last call.
Return ==
    /\ op # "idle"
    /\ op' = "idle"
    /\ args' = <<>>
    /\ ret' = Ok(<<>>)
    /\ UNCHANGED address

CallPadded ==
    /\ op = "idle"
    /\ \E data \in PadData, size \in 0..MaxPadSize :
        /\ op' = "padded"
        /\ args' = [data |-> data, size |-> size]
        /\ ret' = Ok(padded(data, size))
        /\ UNCHANGED address

CallParseHex ==
    /\ op = "idle"
    /\ \E src \in HexStrings :
        /\ op' = "parseHex"
        /\ args' = [src |-> src]
        /\ ret' = Ok(parseHex(src))
        /\ UNCHANGED address

CallExtractPowParamsFromState ==
    /\ op = "idle"
    /\ \E cell \in Cells :
        /\ op' = "extractPowParamsFromState"
        /\ args' = [cell |-> cell]
        /\ ret' = extractPowParamsFromState(cell)
        /\ UNCHANGED address

CallCreateMiningJobHeader ==
    /\ op = "idle"
    /\ \E wallet \in Wallets, expiresSec \in Expiries :
        /\ op' = "createMiningJobHeader"
        /\ args' = [wallet |-> wallet, expiresSec |-> expiresSec]
        /\ ret' = Ok(createMiningJobHeader(wallet, expiresSec))
        /\ UNCHANGED address

CallCreateMiningJob ==
    /\ op = "idle"
    /\ \E a \in JobArgs :
        /\ op' = "createMiningJob"
        /\ args' = a
        /\ ret' = createMiningJob(a)
        /\ UNCHANGED address

CallCheckMiningJobHash ==
    /\ op = "idle"
    /\ \E j \in JobArgs :
        \E hash \in CandidateHashes(j) :
            LET a == [seed |-> j.seed, random |-> j.random, wallet |-> j.wallet,
                      expiresSec |-> j.expiresSec, hash |-> hash]
            IN  /\ op' = "checkMiningJobHash"
                /\ args' = a
                /\ ret' = checkMiningJobHash(a)
                /\ UNCHANGED address

CallCreateMiningMessage ==
    /\ op = "idle"
    /\ \E j \in JobArgs, giver \in Givers :
        LET a == [giver |-> giver, seed |-> j.seed, random |-> j.random, wallet |-> j.wallet,
                  expiresSec |-> j.expiresSec]
        IN  /\ op' = "createMiningMessage"
            /\ args' = a
            /\ ret' = createMiningMessage(a)
            /\ UNCHANGED address

\* callGetMethod(this.address, 'get_pow_params') resolves to some stack.
CallGetPowParams ==
    /\ op = "idle"
    /\ \E s \in SeedStrings, c \in ComplexityStrings :
        LET params == [stack |-> << <<"num", s>>, <<"num", c>> >>]
        IN  /\ op' = "getPowParams"
            /\ args' = [address |-> address, params |-> params]
            /\ ret' = getPowParams(params)
            /\ UNCHANGED address

Next ==
    \/ CallPadded
    \/ CallParseHex
    \/ CallExtractPowParamsFromState
    \/ CallCreateMiningJobHeader
    \/ CallCreateMiningJob
    \/ CallCheckMiningJobHash
    \/ CallCreateMiningMessage
    \/ CallGetPowParams
    \/ Return

Spec == Init /\ [][Next]_vars

(***************************************************************************)
(* Properties.                                                             *)
(***************************************************************************)
JobOf(a) == [seed |-> a.seed, random |-> a.random, wallet |-> a.wallet,
             expiresSec |-> a.expiresSec]

\* C1: with a workchain-0 wallet, the hashing job for the arguments of a
\* mining message is the two bytes 0x00 0xF2 followed by exactly the body of
\* that message; the body does not start with the prefix, the job does.
C1_HashingJobIsPrefixedWireBody ==
    (op = "createMiningMessage" /\ args.wallet.workChain = 0) =>
        LET job == createMiningJob(JobOf(args))
        IN  /\ ret.threw = "none"
            /\ job.threw = "none"
            /\ job.value = <<0, 242>> \o ret.value.body
            /\ Len(job.value) = Len(ret.value.body) + 2
            /\ SubSeq(job.value, 1, 2) = <<0, 242>>
            /\ SubSeq(ret.value.body, 1, 2) # <<0, 242>>

C1_Witness ==
    /\ op = "createMiningMessage"
    /\ args.wallet.workChain = 0
    /\ Len(args.seed) = 16
    /\ Len(args.random) = 16
    /\ ret.threw = "none"
    /\ Len(ret.value.body) = 89

\* C2: createMiningJob and createMiningMessage (which builds the wire job)
\* called with a wallet whose workchain is not 0 throw the unsupported
\* workchain error, whatever the other arguments, and produce nothing.
C2_WorkchainGuard ==
    (op \in {"createMiningJob", "createMiningMessage"} /\ args.wallet.workChain # 0) =>
        /\ ret.threw = WorkchainError
        /\ ret.value = <<>>

C2_Witness ==
    /\ op = "createMiningMessage"
    /\ args.wallet.workChain = -1
    /\ Len(args.seed) = 16
    /\ ret.threw = WorkchainError

\* C3: with a workchain-0 wallet createMiningJob returns 0x00 0xF2, "Mine",
\* a zero byte, the expiry in 4 bytes big-endian, the 32-byte wallet hash (43
\* bytes so far), then random, seed and random again; 91 bytes when seed and
\* random have 16 bytes each.
C3_JobLayout ==
    (op = "createMiningJob" /\ args.wallet.workChain = 0) =>
        LET job == ret.value
            r == Len(args.random)
            s == Len(args.seed)
            e == args.expiresSec
        IN  /\ ret.threw = "none"
            /\ Len(job) = 43 + r + s + r
            /\ SubSeq(job, 1, 2) = <<0, 242>>
            /\ SubSeq(job, 3, 6) = <<77, 105, 110, 101>>
            /\ job[7] = 0
            /\ job[8] = (e \div 16777216) % 256
            /\ job[9] = (e \div 65536) % 256
            /\ job[10] = (e \div 256) % 256
            /\ job[11] = e % 256
            /\ SubSeq(job, 12, 43) = args.wallet.hash
            /\ SubSeq(job, 44, 43 + r) = args.random
            /\ SubSeq(job, 44 + r, 43 + r + s) = args.seed
            /\ SubSeq(job, 44 + r + s, 43 + r + s + r) = args.random
            /\ (r = 16 /\ s = 16) => Len(job) = 91

C3_Witness ==
    /\ op = "createMiningJob"
    /\ args.wallet.workChain = 0
    /\ args.expiresSec = 1000000000
    /\ Len(args.seed) = 16
    /\ Len(args.random) = 16
    /\ args.seed # args.random
    /\ ret.threw = "none"
    /\ Len(ret.value) = 91

\* C4: with a workchain-0 wallet checkMiningJobHash returns a boolean, never
\* an error: true exactly when the candidate hash equals the digest of the
\* hashing job rebuilt from seed, random, wallet and expiry.
C4_CheckIsDigestEquality ==
    (op = "checkMiningJobHash" /\ args.wallet.workChain = 0) =>
        /\ ret.threw = "none"
        /\ ret.value \in BOOLEAN
        /\ ret.value <=> (args.hash = sha256(createMiningJob(JobOf(args)).value))

C4_Witness ==
    /\ op = "checkMiningJobHash"
    /\ args.wallet.workChain = 0
    /\ Len(args.hash) = 32
    /\ args.hash # sha256(createMiningJob(JobOf(args)).value)
    /\ ret.threw = "none"
    /\ ret.value = FALSE

\* The arguments that differ from a in one byte of seed, random, wallet.hash
\* or of the 4-byte expiry, all lengths kept.
AltBytes == {0, 1, 17, 34, 127}

ExpiryByte(e, k) == (e \div (256 ^ (3 - k))) % 256

SetExpiryByte(e, k, b) == e + ((b - ExpiryByte(e, k)) * (256 ^ (3 - k)))

OneByteChanges(a) ==
    {[a EXCEPT !.seed[i] = b] : i \in 1..Len(a.seed), b \in AltBytes}
        \cup {[a EXCEPT !.random[i] = b] : i \in 1..Len(a.random), b \in AltBytes}
        \cup {[a EXCEPT !.wallet.hash[i] = b] : i \in 1..Len(a.wallet.hash), b \in AltBytes}
        \cup {[a EXCEPT !.expiresSec = SetExpiryByte(a.expiresSec, k, b)] :
                k \in 0..3, b \in AltBytes}

\* C5: with a workchain-0 wallet, arguments that differ from those of the
\* call in a single byte of seed, random, expiry or wallet.hash (lengths
\* unchanged) give a different hashing job.
C5_OneByteChangesTheJob ==
    (op = "createMiningJob" /\ args.wallet.workChain = 0) =>
        \A b \in OneByteChanges(args) \ {args} :
            /\ createMiningJob(b).threw = "none"
            /\ createMiningJob(b).value # ret.value

C5_Witness ==
    /\ op = "createMiningJob"
    /\ args.wallet.workChain = 0
    /\ Len(args.seed) = 16
    /\ Len(args.random) = 16
    /\ ret.threw = "none"
    /\ \E b \in OneByteChanges(args) : b.seed # args.seed
    /\ \E b \in OneByteChanges(args) : b.random # args.random
    /\ \E b \in OneByteChanges(args) : b.wallet.hash # args.wallet.hash
    /\ \E b \in OneByteChanges(args) : b.expiresSec # args.expiresSec

\* C6: for data no longer than size, padded returns exactly size bytes: the
\* data at the end, zeros before it.
C6_PaddedRightAligns ==
    (op = "padded" /\ Len(args.data) <= args.size) =>
        LET n == args.size
            len == Len(args.data)
        IN  /\ ret.threw = "none"
            /\ Len(ret.value) = n
            /\ SubSeq(ret.value, n - len + 1, n) = args.data
            /\ \A j \in 1..(n - len) : ret.value[j] = 0

C6_Witness ==
    /\ op = "padded"
    /\ Len(args.data) >= 2
    /\ Len(args.data) < args.size
    /\ args.data[1] # 0
    /\ args.data[1] # args.data[2]
    /\ Len(ret.value) = args.size

\* The bytes the strings of a get_pow_params stack decode to.
DecodedSeed == parseHex(args.params.stack[1][2])

DecodedComplexity == parseHex(args.params.stack[2][2])

\* C7: padded throws when data is longer than size, and getPowParams throws
\* when the seed decodes to more than 16 bytes or the complexity to more than
\* 32: no result is returned with bytes of the input dropped.
C7_OversizeIsAnError ==
    /\ (op = "padded" /\ Len(args.data) > args.size) => ret.threw # "none"
    /\ (op = "getPowParams" /\ (Len(DecodedSeed) > 16 \/ Len(DecodedComplexity) > 32)) =>
           ret.threw # "none"

AllHexDigits(str) == \A i \in 1..Len(str) : IsHexDigit(str[i])

\* C8: for a string d of hex digits, parseHex gives the same bytes for d,
\* "x" + d and "0x" + d, and, when d has an odd number of digits, for
\* "0" + d.
C8_PrefixAndOddDigitsInsensitive ==
    (op = "parseHex" /\ AllHexDigits(args.src)) =>
        /\ ret.threw = "none"
        /\ parseHex(<<"x">> \o args.src) = ret.value
        /\ parseHex(<<"0", "x">> \o args.src) = ret.value
        /\ Len(args.src) % 2 = 1 => parseHex(<<"0">> \o args.src) = ret.value

C8_Witness ==
    /\ op = "parseHex"
    /\ args.src = <<"a", "F", "1">>
    /\ ret.value = <<10, 241>>

\* What parseHex decodes once the prefix is stripped.
AfterPrefix(src) == Strip0x(StripX(src))

\* C9: parseHex throws when a character left after the prefix is stripped is
\* not a hex digit; it returns no buffer for such input.
C9_BadDigitIsAnError ==
    (op = "parseHex" /\ ~AllHexDigits(AfterPrefix(args.src))) => ret.threw # "none"

\* The n bytes stored in bits from bit offset off on, first bit of a byte
\* the most significant.
BytesAt(bits, off, n) ==
    AsSeq([k \in 1..n |->
        LET at == off + 8 * (k - 1)
        IN  128 * bits[at + 1] + 64 * bits[at + 2] + 32 * bits[at + 3] + 16 * bits[at + 4]
              + 8 * bits[at + 5] + 4 * bits[at + 6] + 2 * bits[at + 7] + bits[at + 8]])

\* C10: on a cell of at least 704 bits extractPowParamsFromState returns as
\* seed the 16 bytes at bits [320,448) and as complexity the 32 bytes at bits
\* [448,704), whatever the other bits are; the cursor goes 0, 320, 448, 704
\* and the bits of the cell are unchanged.
C10_ExtractReadsFixedLayout ==
    (op = "extractPowParamsFromState" /\ Len(args.cell.bits) >= 704) =>
        /\ ret.threw = "none"
        /\ ret.value.seed = BytesAt(args.cell.bits, 320, 16)
        /\ ret.value.complexity = BytesAt(args.cell.bits, 448, 32)
        /\ ret.cursor = <<0, 320, 448, 704>>
        /\ ret.bits = args.cell.bits

C10_Witness ==
    /\ op = "extractPowParamsFromState"
    /\ Len(args.cell.bits) > 704
    /\ args.cell.bits[1] = 1
    /\ args.cell.bits[705] = 1
    /\ ret.threw = "none"
    /\ ret.value.seed = Cycle(<<107, 90, 214, 181, 173>>, 16)
    /\ ret.value.complexity = Cycle(<<22, 44, 88, 177, 98, 197, 139>>, 32)

====
